---- MODULE Spec2Model ----
(***************************************************************************)
(* Model of reference/sync_script.py: the DopplerSyncManager sync planner.  *)
(*                                                                         *)
(* State: the master library on disk, the SQLite store sync_database.db,   *)
(* the queue file transfer_queue.json, and the position and locals of the  *)
(* process running main().  mark_as_transferred is called by the external  *)
(* transfer executor through its own DopplerSyncManager instance.          *)
(***************************************************************************)
EXTENDS Integers, Sequences, FiniteSets, TLC

VARIABLES
    fs,             \* master library: absolute path -> file (content, st_mtime, readable)
    db,             \* sync_database.db: schema, transferred_files rows, sqlite_sequence
    db_ok,          \* whether sqlite3 can open and read the store file
    queue_file,     \* transfer_queue.json as it is on disk
    pc,             \* position of the process running main()
    outcome,        \* how the last run ended: what it printed last, or its exception
    runs,           \* number of main() processes started
    edits,          \* number of library changes made by the user
    master_files,   \* identify_sync_candidates: file_info records, scan order
    new_files,      \* candidates['new_files']
    modified_files, \* candidates['modified_files']
    queue_data,     \* create_transfer_queue: the document being written
    recorded,       \* history: keys for which mark_as_transferred completed
    last_marked     \* history: path last recorded with the library untouched since

vars == <<fs, db, db_ok, queue_file, pc, outcome, runs, edits,
          master_files, new_files, modified_files, queue_data, recorded, last_marked>>

locals == <<master_files, new_files, modified_files, queue_data>>

-----------------------------------------------------------------------------
(* Bounds of the model *)

MaxTime == 2
MaxRuns == 2
MaxMarks == 2
MaxEdits == 1
TicksPerSec == 2

(* Program constants *)

ChunkSize == 4096

None == 0

Min(a, b) == IF a < b THEN a ELSE b

-----------------------------------------------------------------------------
(* Paths: the components of a pathlib.Path, the suffix of the last one apart *)

master_dir == [parts |-> <<"home", "Music", "DopplerMaster">>, suffix |-> ""]

audio_extensions == {".mp3", ".m4a", ".flac", ".wav", ".aac", ".m4p"}

TrackA == [parts |-> <<"a">>, suffix |-> ".mp3"]
TrackB == [parts |-> <<"sub", "b">>, suffix |-> ".MP3"]
Cover == [parts |-> <<"cover">>, suffix |-> ".jpg"]
SubDir == [parts |-> <<"sub">>, suffix |-> ""]

Library == {TrackA, TrackB, Cover}

\* base / rel
Join(base, rel) == [parts |-> base.parts \o rel.parts, suffix |-> rel.suffix]

AbsFiles == {Join(master_dir, r) : r \in Library}

IsUnder(p, base) ==
    /\ Len(p.parts) >= Len(base.parts)
    /\ SubSeq(p.parts, 1, Len(base.parts)) = base.parts

\* Path.relative_to: strips the base's components (ValueError when not under it)
relative_to(p, base) ==
    [parts |-> SubSeq(p.parts, Len(base.parts) + 1, Len(p.parts)), suffix |-> p.suffix]

\* str.lower on a suffix
lower(s) ==
    CASE s = ".MP3" -> ".mp3"
      [] s = ".JPG" -> ".jpg"
      [] OTHER -> s

-----------------------------------------------------------------------------
(* Files *)

NoFile == [exists |-> FALSE]

\* st_mtime in ticks, TicksPerSec ticks to the second
Times == 0..MaxTime

\* file contents: empty, and two of the same size
Contents == {<<>>, <<0>>, <<1>>}

File(c, t, r) == [exists |-> TRUE, content |-> c, st_mtime |-> t, readable |-> r]

is_file(fsys, p) == p \in DOMAIN fsys /\ fsys[p].exists

st_size(f) == Len(f.content)

\* int() of a float number of seconds
int(ticks) == ticks \div TicksPerSec

\* hasher.update(chunk): folds the bytes of the chunk into the digest state
RECURSIVE update(_, _)
update(h, chunk) ==
    IF chunk = <<>> THEN h ELSE update(2 * h + Head(chunk), Tail(chunk))

\* the loop over f.read(4096), ended by the empty chunk
RECURSIVE read_chunks(_, _)
read_chunks(h, rest) ==
    LET chunk == SubSeq(rest, 1, Min(ChunkSize, Len(rest)))
    IN  IF chunk = <<>> THEN h
        ELSE read_chunks(update(h, chunk), SubSeq(rest, Len(chunk) + 1, Len(rest)))

calculate_file_hash(f) == read_chunks(1, f.content)

-----------------------------------------------------------------------------
(* The store: sync_database.db *)

NoDb == [schema |-> FALSE, transferred_files |-> {}, seq |-> 0, transfer_sessions |-> <<>>]

\* an initialisation that drops and recreates the tables
init_database_recreate(d) ==
    [schema |-> TRUE, transferred_files |-> {}, seq |-> 0, transfer_sessions |-> <<>>]

\* CREATE TABLE IF NOT EXISTS: existing tables and their rows are kept
init_database(d) ==
    [schema |-> TRUE,
     transferred_files |-> IF d.schema THEN d.transferred_files ELSE {},
     seq |-> IF d.schema THEN d.seq ELSE 0,
     transfer_sessions |-> IF d.schema THEN d.transfer_sessions ELSE <<>>]

\* SELECT file_path, file_hash, file_size, last_modified: the dict keyed by path
get_transferred_files(d) ==
    [p \in {r.file_path : r \in d.transferred_files} |->
        LET row == CHOOSE r \in d.transferred_files : r.file_path = p
        IN  [hash |-> row.file_hash, size |-> row.file_size, modified |-> row.last_modified]]

\* a loader that swallows the store's exception and goes on with an empty history
load_transferred_files_swallow(d, ok) ==
    IF ok THEN [raised |-> "", transferred |-> get_transferred_files(d)]
    ELSE [raised |-> "", transferred |-> <<>>]

\* get_transferred_files as it ends: sqlite3.connect or the SELECT raises when
\* the store cannot be read
load_transferred_files(d, ok) ==
    IF ok THEN [raised |-> "", transferred |-> get_transferred_files(d)]
    ELSE [raised |-> "OperationalError", transferred |-> <<>>]

\* a plain INSERT into a table without the UNIQUE constraint
insert_keep_old(d, key, file_hash, size, modified, date, method) ==
    [d EXCEPT
        !.transferred_files =
            @ \cup
            {[id |-> d.seq + 1, file_path |-> key, file_hash |-> file_hash,
              file_size |-> size, last_modified |-> modified,
              transferred_date |-> date, transfer_method |-> method]},
        !.seq = @ + 1]

\* INSERT OR REPLACE under UNIQUE(file_path), id AUTOINCREMENT
insert_or_replace(d, key, file_hash, size, modified, date, method) ==
    [d EXCEPT
        !.transferred_files =
            {r \in @ : r.file_path # key} \cup
            {[id |-> d.seq + 1, file_path |-> key, file_hash |-> file_hash,
              file_size |-> size, last_modified |-> modified,
              transferred_date |-> date, transfer_method |-> method]},
        !.seq = @ + 1]

\* a recorder that stores the path as it was given, not relative to master_dir
record_key_absolute(file_path) == file_path

\* the key mark_as_transferred stores a file under
record_key(file_path) == relative_to(file_path, master_dir)

-----------------------------------------------------------------------------
(* scan_master_library *)

\* what rglob('*') yields: the existing files and the directory above them
rglob(fsys) == {e \in Library : is_file(fsys, Join(master_dir, e))} \cup {SubDir}

Perms(S) == {w \in [1..Cardinality(S) -> S] : \A x \in S : \E i \in DOMAIN w : w[i] = x}

RECURSIVE scan_master_library(_, _)
scan_master_library(fsys, walk) ==
    IF walk = <<>> THEN <<>>
    ELSE LET file_path == Join(master_dir, Head(walk))
             rest == scan_master_library(fsys, Tail(walk))
         IN  IF is_file(fsys, file_path) /\ lower(file_path.suffix) \in audio_extensions
             THEN <<[path |-> file_path,
                     relative_path |-> relative_to(file_path, master_dir),
                     size |-> st_size(fsys[file_path]),
                     modified |-> int(fsys[file_path].st_mtime),
                     hash |-> None]>> \o rest
             ELSE rest

-----------------------------------------------------------------------------
(* identify_sync_candidates: the body of the loop for one file_info *)

\* the modification time compared with the wrong column of the row
metadata_differs_wrong_column(file_info, transferred_info) ==
    \/ file_info.size # transferred_info.size
    \/ file_info.modified # transferred_info.hash

metadata_differs(file_info, transferred_info) ==
    \/ file_info.size # transferred_info.size
    \/ file_info.modified # transferred_info.modified

\* a loop body that hashes every file before it looks at the history
classify_eager_hash(file_info, transferred, fsys) ==
    IF ~fsys[file_info.path].readable
    THEN [kind |-> "raise", file_info |-> file_info]
    ELSE LET current_hash == calculate_file_hash(fsys[file_info.path])
             hashed == [file_info EXCEPT !.hash = current_hash]
         IN  IF file_info.relative_path \notin DOMAIN transferred
             THEN [kind |-> "new", file_info |-> hashed]
             ELSE IF /\ metadata_differs(file_info, transferred[file_info.relative_path])
                     /\ current_hash # transferred[file_info.relative_path].hash
                  THEN [kind |-> "modified", file_info |-> hashed]
                  ELSE [kind |-> "unchanged", file_info |-> hashed]

\* a loop body that trusts the metadata: no hash to confirm the change
classify_trust_metadata(file_info, transferred, fsys) ==
    IF file_info.relative_path \notin DOMAIN transferred
    THEN [kind |-> "new", file_info |-> file_info]
    ELSE IF metadata_differs(file_info, transferred[file_info.relative_path])
         THEN [kind |-> "modified", file_info |-> file_info]
         ELSE [kind |-> "unchanged", file_info |-> file_info]

\* kind: "new", "modified", "unchanged", or "raise" when open() fails in the hash
classify(file_info, transferred, fsys) ==
    IF file_info.relative_path \notin DOMAIN transferred
    THEN [kind |-> "new", file_info |-> file_info]
    ELSE LET transferred_info == transferred[file_info.relative_path]
         IN  IF metadata_differs(file_info, transferred_info)
             THEN IF ~fsys[file_info.path].readable
                  THEN [kind |-> "raise", file_info |-> file_info]
                  ELSE LET current_hash == calculate_file_hash(fsys[file_info.path])
                           hashed == [file_info EXCEPT !.hash = current_hash]
                       IN  IF current_hash # transferred_info.hash
                           THEN [kind |-> "modified", file_info |-> hashed]
                           ELSE [kind |-> "unchanged", file_info |-> hashed]
             ELSE [kind |-> "unchanged", file_info |-> file_info]

\* the loop; an exception leaves it at once
RECURSIVE analyze(_, _, _, _)
analyze(files, transferred, fsys, acc) ==
    IF files = <<>> THEN acc
    ELSE LET c == classify(Head(files), transferred, fsys)
         IN  IF c.kind = "raise" THEN [acc EXCEPT !.raised = "PermissionError"]
             ELSE analyze(Tail(files), transferred, fsys,
                    [acc EXCEPT
                        !.master_files = Append(@, c.file_info),
                        !.new_files = IF c.kind = "new" THEN Append(@, c.file_info) ELSE @,
                        !.modified_files =
                            IF c.kind = "modified" THEN Append(@, c.file_info) ELSE @])

identify_sync_candidates(scanned, transferred, fsys) ==
    analyze(scanned, transferred, fsys,
            [raised |-> "", master_files |-> <<>>, new_files |-> <<>>, modified_files |-> <<>>])

-----------------------------------------------------------------------------
(* create_transfer_queue *)

RECURSIVE sum_sizes(_)
sum_sizes(files) == IF files = <<>> THEN 0 ELSE Head(files).size + sum_sizes(Tail(files))

queue_entry(file_info) ==
    [path |-> file_info.path, relative_path |-> file_info.relative_path,
     size |-> file_info.size, status |-> "queued"]

\* a builder that lists the modified files before the new ones
make_queue_data_modified_first(new, modified, created) ==
    LET file_list == modified \o new
    IN  [created |-> created,
         total_files |-> Len(new) + Len(modified),
         total_size |-> sum_sizes(file_list),
         files |-> [i \in 1..Len(file_list) |-> queue_entry(file_list[i])]]

make_queue_data(new, modified, created) ==
    LET file_list == new \o modified
    IN  [created |-> created,
         total_files |-> Len(new) + Len(modified),
         total_size |-> sum_sizes(file_list),
         files |-> [i \in 1..Len(file_list) |-> queue_entry(file_list[i])]]

NoQueueData == [created |-> 0, total_files |-> 0, total_size |-> 0, files |-> <<>>]

\* json.dump: the document as the sequence of pieces written to the file
dumps(doc) ==
    <<[created |-> doc.created, total_files |-> doc.total_files, total_size |-> doc.total_size]>>
    \o doc.files \o <<[end |-> TRUE]>>

NoQueueFile == [exists |-> FALSE, text |-> <<>>]

\* a reader can parse the file: it ends with the closing piece
is_complete(qf) ==
    /\ qf.exists
    /\ Len(qf.text) >= 2
    /\ qf.text[Len(qf.text)] = [end |-> TRUE]

\* json.load of a complete queue file
loads(text) ==
    [created |-> text[1].created, total_files |-> text[1].total_files,
     total_size |-> text[1].total_size, files |-> SubSeq(text, 2, Len(text) - 1)]

-----------------------------------------------------------------------------
(* Initial state: a fresh installation over a library of three files *)

NoPath == [parts |-> <<>>, suffix |-> ""]

Init ==
    /\ fs = [p \in AbsFiles |-> File(<<0>>, 0, TRUE)]
    /\ db = NoDb
    /\ db_ok = TRUE
    /\ queue_file = NoQueueFile
    /\ pc = "exited"
    /\ outcome = ""
    /\ runs = 0
    /\ edits = 0
    /\ master_files = <<>>
    /\ new_files = <<>>
    /\ modified_files = <<>>
    /\ queue_data = NoQueueData
    /\ recorded = {}
    /\ last_marked = NoPath

-----------------------------------------------------------------------------
(* The environment: time, the user's changes to the library and the state of *)
(* the store file.  One sync run is a single synchronous pass: the library   *)
(* changes and the executor records transfers between the runs of main().    *)

Editable == {Join(master_dir, TrackA)}

Recordable == {Join(master_dir, TrackA), Join(master_dir, TrackB)}

\* datetime.now(), in ticks: logical time, one tick for every process started
\* and every transfer recorded so far
now == runs + db.seq

LibraryChange(fsys) ==
    /\ pc = "exited"
    /\ edits < MaxEdits
    /\ fs' = fsys
    /\ edits' = edits + 1
    /\ last_marked' = NoPath
    /\ UNCHANGED <<db, db_ok, queue_file, pc, outcome, runs, locals, recorded>>

\* a file is created or replaced (copied in, rewritten): its content, mtime and
\* mode are what the writer sets
WriteFile ==
    \E p \in Editable, c \in Contents, t \in Times, r \in BOOLEAN :
        /\ fs[p].exists => fs[p].content # c
        /\ LibraryChange([fs EXCEPT ![p] = File(c, t, r)])

\* touch, utime: the mtime changes, the content does not
TouchFile ==
    \E p \in Editable, t \in Times :
        /\ fs[p].exists
        /\ fs[p].st_mtime # t
        /\ LibraryChange([fs EXCEPT ![p].st_mtime = t])

DeleteFile ==
    \E p \in Editable :
        /\ fs[p].exists
        /\ LibraryChange([fs EXCEPT ![p] = NoFile])

\* the read permission of a file changes; stat() still succeeds
Chmod ==
    \E p \in Editable :
        /\ fs[p].exists
        /\ LibraryChange([fs EXCEPT ![p].readable = ~@])

\* the store file becomes unreachable or unreadable to sqlite3, also between
\* init_database and get_transferred_files
BreakStore ==
    /\ pc \in {"exited", "started"}
    /\ db_ok
    /\ db_ok' = FALSE
    /\ UNCHANGED <<fs, db, queue_file, pc, outcome, runs, edits, locals,
                   recorded, last_marked>>

RestoreStore ==
    /\ pc \in {"exited", "started"}
    /\ ~db_ok
    /\ db_ok' = TRUE
    /\ UNCHANGED <<fs, db, queue_file, pc, outcome, runs, edits, locals,
                   recorded, last_marked>>

-----------------------------------------------------------------------------
(* main() *)

\* the process ends: its last message or its traceback is all that is left of it
Exit(result) ==
    /\ pc' = "exited"
    /\ outcome' = result
    /\ master_files' = <<>>
    /\ new_files' = <<>>
    /\ modified_files' = <<>>
    /\ queue_data' = NoQueueData

\* sync_manager = DopplerSyncManager(): __init__ runs init_database
StartRun ==
    /\ pc = "exited"
    /\ runs < MaxRuns
    /\ runs' = runs + 1
    /\ IF db_ok
       THEN /\ db' = init_database(db)
            /\ pc' = "started"
            /\ outcome' = ""
            /\ UNCHANGED locals
       ELSE /\ Exit("OperationalError")
            /\ db' = db
    /\ UNCHANGED <<fs, db_ok, queue_file, edits, recorded, last_marked>>

\* the rows of the files that were hashed and found unchanged, brought up to
\* the scanned size and modification time
repaired_rows(rows, files) ==
    {IF \E f \in {files[i] : i \in 1..Len(files)} :
            f.relative_path = r.file_path /\ f.hash = r.file_hash
     THEN LET f == CHOOSE f \in {files[i] : i \in 1..Len(files)} :
                        f.relative_path = r.file_path /\ f.hash = r.file_hash
          IN  [r EXCEPT !.file_size = f.size, !.last_modified = f.modified]
     ELSE r : r \in rows}

\* a detection that writes the fresh metadata of unchanged files to the store
Identify_repairs ==
    /\ pc = "started"
    /\ \E walk \in Perms(rglob(fs)) :
        LET scanned == scan_master_library(fs, walk)
            loaded == load_transferred_files(db, db_ok)
        IN  IF loaded.raised # ""
            THEN Exit(loaded.raised) /\ db' = db
            ELSE LET r == identify_sync_candidates(scanned, loaded.transferred, fs)
                 IN  IF r.raised # ""
                     THEN Exit(r.raised) /\ db' = db
                     ELSE /\ master_files' = r.master_files
                          /\ new_files' = r.new_files
                          /\ modified_files' = r.modified_files
                          /\ pc' = "identified"
                          /\ db' = [db EXCEPT !.transferred_files =
                                        repaired_rows(@, r.master_files)]
                          /\ UNCHANGED <<outcome, queue_data>>
    /\ UNCHANGED <<fs, db_ok, queue_file, runs, edits, recorded, last_marked>>

\* candidates = sync_manager.identify_sync_candidates()
Identify ==
    /\ pc = "started"
    /\ \E walk \in Perms(rglob(fs)) :
        LET scanned == scan_master_library(fs, walk)
            loaded == load_transferred_files(db, db_ok)
        IN  IF loaded.raised # ""
            THEN Exit(loaded.raised)
            ELSE LET r == identify_sync_candidates(scanned, loaded.transferred, fs)
                 IN  IF r.raised # ""
                     THEN Exit(r.raised)
                     ELSE /\ master_files' = r.master_files
                          /\ new_files' = r.new_files
                          /\ modified_files' = r.modified_files
                          /\ pc' = "identified"
                          /\ UNCHANGED <<outcome, queue_data>>
    /\ UNCHANGED <<fs, db, db_ok, queue_file, runs, edits, recorded, last_marked>>

total_files == Len(new_files) + Len(modified_files)

\* the else branch of main: nothing to sync, the queue file is not touched
NoSync ==
    /\ pc = "identified"
    /\ total_files = 0
    /\ Exit("up to date")
    /\ UNCHANGED <<fs, db, db_ok, queue_file, runs, edits, recorded, last_marked>>

RECURSIVE record_all(_, _)
record_all(d, files) ==
    IF files = <<>> THEN d
    ELSE record_all(insert_or_replace(d, Head(files).relative_path, None,
                        Head(files).size, Head(files).modified, int(now), "queued"),
                    Tail(files))

\* a queue builder that already enters the queued files in transferred_files
OpenQueue_records ==
    /\ pc = "identified"
    /\ total_files > 0
    /\ queue_data' = make_queue_data(new_files, modified_files, now)
    /\ queue_file' = [exists |-> TRUE, text |-> <<>>]
    /\ pc' = "dumping"
    /\ db' = record_all(db, new_files \o modified_files)
    /\ UNCHANGED <<fs, db_ok, outcome, runs, edits,
                   master_files, new_files, modified_files, recorded, last_marked>>

\* create_transfer_queue up to open(self.queue_path, 'w'), which truncates the file
OpenQueue ==
    /\ pc = "identified"
    /\ total_files > 0
    /\ queue_data' = make_queue_data(new_files, modified_files, now)
    /\ queue_file' = [exists |-> TRUE, text |-> <<>>]
    /\ pc' = "dumping"
    /\ UNCHANGED <<fs, db, db_ok, outcome, runs, edits,
                   master_files, new_files, modified_files, recorded, last_marked>>

\* json.dump writes the next piece of the document
DumpQueue ==
    /\ pc = "dumping"
    /\ Len(queue_file.text) < Len(dumps(queue_data))
    /\ queue_file' = [queue_file EXCEPT
            !.text = Append(@, dumps(queue_data)[Len(queue_file.text) + 1])]
    /\ UNCHANGED <<fs, db, db_ok, pc, outcome, runs, edits, locals,
                   recorded, last_marked>>

\* the with block closes the file, create_transfer_queue returns, main ends
CloseQueue ==
    /\ pc = "dumping"
    /\ Len(queue_file.text) = Len(dumps(queue_data))
    /\ Exit("queue created")
    /\ UNCHANGED <<fs, db, db_ok, queue_file, runs, edits, recorded, last_marked>>

-----------------------------------------------------------------------------
(* mark_as_transferred, called by the transfer executor after a transfer.    *)
(* A call that raises (stat of a missing file, open of an unreadable one,    *)
(* a store sqlite3 cannot open) ends before the INSERT and changes nothing.  *)

MarkAsTransferred ==
    \E file_path \in Recordable, transfer_method \in {"manual"} :
        /\ pc = "exited"
        /\ db_ok
        /\ db.seq < MaxMarks
        /\ fs[file_path].exists
        /\ fs[file_path].readable
        /\ IsUnder(file_path, master_dir)
        /\ db' = insert_or_replace(init_database(db),
                    record_key(file_path),
                    calculate_file_hash(fs[file_path]),
                    st_size(fs[file_path]),
                    int(fs[file_path].st_mtime),
                    int(now),
                    transfer_method)
        /\ recorded' = recorded \cup {record_key(file_path)}
        /\ last_marked' = file_path
        /\ UNCHANGED <<fs, db_ok, queue_file, pc, outcome, runs, edits, locals>>

-----------------------------------------------------------------------------

Next ==
    \/ WriteFile
    \/ TouchFile
    \/ DeleteFile
    \/ Chmod
    \/ BreakStore
    \/ RestoreStore
    \/ StartRun
    \/ Identify
    \/ NoSync
    \/ OpenQueue
    \/ DumpQueue
    \/ CloseQueue
    \/ MarkAsTransferred

Spec == Init /\ [][Next]_vars

-----------------------------------------------------------------------------
(* Properties *)

Range(seq) == {seq[i] : i \in 1..Len(seq)}

\* the run has classified the library and still holds the result
Detected == pc \in {"identified", "dumping"}

\* the snapshot the run classified against (the store does not change in a run)
transferred == get_transferred_files(db)

Paths(files) == {files[i].relative_path : i \in 1..Len(files)}

HasEntry(f) == f.relative_path \in DOMAIN transferred

MetadataMatches(f) ==
    /\ transferred[f.relative_path].size = f.size
    /\ transferred[f.relative_path].modified = f.modified

\* C1: a scanned file whose stored size and modification time both equal the
\* scanned ones is never hashed and is in neither new_files nor modified_files,
\* whatever its content and its stored hash are.
C1_MatchingMetadataNotHashed ==
    Detected =>
        \A f \in Range(master_files) :
            (HasEntry(f) /\ MetadataMatches(f)) =>
                /\ f.hash = None
                /\ f.relative_path \notin Paths(new_files)
                /\ f.relative_path \notin Paths(modified_files)

\* the content was changed under matching metadata: the stored hash is stale
C1_Witness ==
    /\ Detected
    /\ \E f \in Range(master_files) :
        /\ HasEntry(f) /\ MetadataMatches(f)
        /\ transferred[f.relative_path].hash # calculate_file_hash(fs[f.path])

\* C2: a scanned file with no entry in the loaded snapshot is in new_files, not
\* in modified_files, and no hash is computed for it during detection.
C2_AbsentIsNewUnhashed ==
    Detected =>
        \A f \in Range(master_files) :
            ~HasEntry(f) =>
                /\ f \in Range(new_files)
                /\ f.relative_path \notin Paths(modified_files)
                /\ f.hash = None

\* a run over a non-empty store that finds a file it has no entry for
C2_Witness ==
    /\ Detected
    /\ DOMAIN transferred # {}
    /\ \E f \in Range(master_files) : ~HasEntry(f) /\ f \in Range(new_files)

\* C3: a scanned file with a stored entry whose size or modification time
\* differs is hashed, and is in modified_files exactly when the fresh hash
\* differs from the stored one; with equal hashes it is in no candidate list.
C3_ModifiedIffHashDiffers ==
    Detected =>
        \A f \in Range(master_files) :
            (HasEntry(f) /\ ~MetadataMatches(f)) =>
                /\ f.hash = calculate_file_hash(fs[f.path])
                /\ f.relative_path \in Paths(modified_files)
                        <=> f.hash # transferred[f.relative_path].hash
                /\ f.relative_path \notin Paths(new_files)

\* a touched file (scenario C): the metadata differs, the hash does not
C3_Witness ==
    /\ Detected
    /\ \E f \in Range(master_files) :
        /\ HasEntry(f) /\ ~MetadataMatches(f)
        /\ f.hash = transferred[f.relative_path].hash
        /\ f.relative_path \notin Paths(modified_files)

\* C4: mark_as_transferred(f) followed by identify_sync_candidates on the same
\* library state finds f unchanged: f is scanned and is in neither new_files
\* nor modified_files, whatever the store held for f before.
C4_RoundTrip ==
    (Detected /\ last_marked # NoPath) =>
        /\ \E f \in Range(master_files) : f.path = last_marked
        /\ \A f \in Range(new_files) \cup Range(modified_files) : f.path # last_marked

\* the recorded file replaced its own earlier entry: two rows were written and
\* one is left
C4_Witness ==
    /\ Detected
    /\ last_marked # NoPath
    /\ Cardinality(db.transferred_files) = 1
    /\ \E r \in db.transferred_files :
        /\ r.file_path = relative_to(last_marked, master_dir)
        /\ r.id = 2
    /\ \A f \in Range(new_files) \cup Range(modified_files) : f.path # last_marked

RowKeys(d) == {r.file_path : r \in d.transferred_files}

\* the step is a completed mark_as_transferred
IsRecordStep ==
    /\ pc = "exited" /\ pc' = "exited"
    /\ db'.seq = db.seq + 1
    /\ recorded' = recorded \cup (RowKeys(db') \ RowKeys(db))

\* C5: the store has an entry for a relative path only if mark_as_transferred
\* was called for that file, and no step of a sync run (construction, scan,
\* detection, queue building) creates or replaces a row of transferred_files.
C5_OnlyRecorderWritesStore ==
    /\ [](RowKeys(db) \subseteq recorded)
    /\ [][db'.transferred_files # db.transferred_files => IsRecordStep]_vars

\* a finished run left a queue that lists a file with no entry in the store,
\* next to files that were recorded
C5_Witness ==
    /\ pc = "exited"
    /\ outcome = "queue created"
    /\ is_complete(queue_file)
    /\ RowKeys(db) # {}
    /\ \E e \in Range(loads(queue_file.text).files) : e.relative_path \notin RowKeys(db)

\* the position of a file in the scan
ScanIndex(f) == CHOOSE i \in 1..Len(master_files) : master_files[i].relative_path = f.relative_path

InScanOrder(files) ==
    \A i, j \in 1..Len(files) : i < j => ScanIndex(files[i]) < ScanIndex(files[j])

RECURSIVE SizeOfFirst(_, _)
SizeOfFirst(entries, n) == IF n = 0 THEN 0 ELSE entries[n].size + SizeOfFirst(entries, n - 1)

EntryOf(f) ==
    [path |-> f.path, relative_path |-> f.relative_path, size |-> f.size, status |-> "queued"]

\* C6: the queue document lists new_files and then modified_files, each group in
\* scan order, one entry per candidate and nothing else; total_files is the
\* number of entries, total_size the sum of their sizes, every status "queued";
\* and the file, once written, holds that document.
C6_QueueDocument ==
    /\ pc = "dumping" =>
        LET files == queue_data.files
            n == Len(new_files)
            m == Len(modified_files)
        IN  /\ Len(files) = n + m
            /\ \A i \in 1..n : files[i] = EntryOf(new_files[i])
            /\ \A j \in 1..m : files[n + j] = EntryOf(modified_files[j])
            /\ InScanOrder(new_files)
            /\ InScanOrder(modified_files)
            /\ queue_data.total_files = Len(files)
            /\ queue_data.total_size = SizeOfFirst(files, Len(files))
            /\ Len(queue_file.text) = Len(dumps(queue_data)) =>
                    is_complete(queue_file) /\ loads(queue_file.text) = queue_data
    /\ (pc = "exited" /\ outcome = "queue created") =>
            /\ is_complete(queue_file)
            /\ loads(queue_file.text).total_files = Len(loads(queue_file.text).files)

\* a written queue with a new file listed before a modified one that the scan
\* found first
C6_Witness ==
    /\ pc = "dumping"
    /\ Len(queue_file.text) = Len(dumps(queue_data))
    /\ new_files # <<>>
    /\ modified_files # <<>>
    /\ ScanIndex(modified_files[1]) < ScanIndex(new_files[1])
    /\ queue_data.total_size > 0

\* C7: after a run that finds nothing to sync, the queue location holds no
\* queue or an empty one: no entry of an earlier run's queue survives.
C7_QueueIsOfLatestRun ==
    (pc = "exited" /\ outcome = "up to date") =>
        \/ ~queue_file.exists
        \/ is_complete(queue_file) /\ loads(queue_file.text).files = <<>>

\* C8: a failure of calculate_file_hash for one file does not end the run: no
\* run ends with the exception open() raised in the hash.
C8_HashFailureContained ==
    outcome # "PermissionError"

\* the step is StartRun or Identify taken while the store cannot be read
IsStoreFailureStep ==
    /\ ~db_ok
    /\ \/ runs' = runs + 1
       \/ pc = "started" /\ pc' # "started"

\* C9: when init_database or get_transferred_files fails, the run ends with the
\* error, create_transfer_queue is not reached, and the queue file is as it was.
C9_StoreFailureEmitsNoQueue ==
    [][IsStoreFailureStep =>
            /\ pc' = "exited"
            /\ outcome' = "OperationalError"
            /\ queue_file' = queue_file
            /\ queue_data' = NoQueueData]_vars

\* a run failed on the store after init_database had succeeded, and the queue
\* of an earlier run is still in place
C9_Witness ==
    /\ pc = "exited"
    /\ outcome = "OperationalError"
    /\ ~db_ok
    /\ db.schema
    /\ is_complete(queue_file)

\* C10: whenever the queue file can be read it holds a complete document (the
\* previous one or the new one) or does not exist.
C10_QueueNeverPartial ==
    queue_file.exists => is_complete(queue_file)

\* C11: a sync run that produces a non-empty queue appends one record to
\* transfer_sessions: after a run that created a queue the log is not empty.
C11_SessionPerQueue ==
    (pc = "exited" /\ outcome = "queue created") => Len(db.transfer_sessions) >= 1

\* C12: a stored entry is never lost: every step (a new DopplerSyncManager, a
\* sync run over a library the file has left, a change of the library, the
\* recording of another file) keeps each row of transferred_files as it is,
\* except the recording of that row's own file, which replaces it by a row
\* with the same key.
C12_EntriesNeverLost ==
    [][\A r \in db.transferred_files :
            \/ r \in db'.transferred_files
            \/ /\ IsRecordStep
               /\ last_marked' = Join(master_dir, r.file_path)
               /\ \E r2 \in db'.transferred_files :
                    r2.file_path = r.file_path /\ r2.id = db'.seq]_vars

\* two runs have ended, the second over a library without a.mp3, and the
\* entry of a.mp3 is still there, older than the entry of another file
C12_Witness ==
    /\ pc = "exited"
    /\ runs >= 2
    /\ outcome = "up to date"
    /\ ~fs[Join(master_dir, TrackA)].exists
    /\ \E r1, r2 \in db.transferred_files :
        /\ r1.file_path = TrackA
        /\ r2.file_path = TrackB
        /\ r1.id < r2.id

\* the row carries the hash, size and modification time the file has now
RowIsCurrent(r, file_path) ==
    /\ r.file_hash = calculate_file_hash(fs[file_path])
    /\ r.file_size = st_size(fs[file_path])
    /\ r.last_modified = int(fs[file_path].st_mtime)

\* C13: the store holds at most one entry per relative path; the entry of the
\* file recorded last carries the hash, size and modification time the file
\* had then; and recording a file whose entry is already current leaves
\* those three fields and the number of entries unchanged.
C13_UpsertByPath ==
    /\ [](\A r1, r2 \in db.transferred_files : r1.file_path = r2.file_path => r1 = r2)
    /\ [](last_marked # NoPath =>
            \E r \in db.transferred_files :
                /\ r.file_path = relative_to(last_marked, master_dir)
                /\ RowIsCurrent(r, last_marked))
    /\ [][\A r \in db.transferred_files :
            (/\ IsRecordStep
             /\ last_marked' = Join(master_dir, r.file_path)
             /\ RowIsCurrent(r, last_marked')) =>
                /\ Cardinality(db'.transferred_files) = Cardinality(db.transferred_files)
                /\ \E r2 \in db'.transferred_files :
                    /\ r2.file_path = r.file_path
                    /\ r2.file_hash = r.file_hash
                    /\ r2.file_size = r.file_size
                    /\ r2.last_modified = r.last_modified]_vars

\* a file of a library that never changed was recorded twice: one row is left,
\* the second written
C13_Witness ==
    /\ pc = "exited"
    /\ edits = 0
    /\ last_marked # NoPath
    /\ db.seq = 2
    /\ \E r \in db.transferred_files :
        /\ db.transferred_files = {r}
        /\ r.id = 2
        /\ RowIsCurrent(r, last_marked)

\* the stored hash of the file is the hash of its content, the stored size or
\* modification time is not the file's
StaleMetadata(d, fsys, p) ==
    /\ fsys[p].exists
    /\ \E r \in d.transferred_files :
        /\ r.file_path = relative_to(p, master_dir)
        /\ r.file_hash = calculate_file_hash(fsys[p])
        /\ \/ r.file_size # st_size(fsys[p])
           \/ r.last_modified # int(fsys[p].st_mtime)

\* C14: detection never repairs stale metadata: no step of a sync run ends the
\* staleness of a file's entry, and every run that classifies the library
\* hashes each file with a stale entry again and queues none of them.
C14_StaleMetadataRehashed ==
    /\ [](Detected =>
            \A f \in Range(master_files) :
                StaleMetadata(db, fs, f.path) =>
                    /\ f.hash # None
                    /\ f.hash = calculate_file_hash(fs[f.path])
                    /\ f.relative_path \notin Paths(new_files) \cup Paths(modified_files))
    /\ [][(pc # "exited" \/ pc' # "exited") =>
            \A p \in AbsFiles :
                StaleMetadata(db, fs, p) => StaleMetadata(db', fs', p)]_vars

\* a second run that finds nothing to sync and has hashed a file all the same
C14_Witness ==
    /\ Detected
    /\ runs >= 2
    /\ total_files = 0
    /\ \E f \in Range(master_files) :
        /\ StaleMetadata(db, fs, f.path)
        /\ f.hash = calculate_file_hash(fs[f.path])

====
